---- MODULE Spec2Model ----
(***************************************************************************)
(* Model of src/v4l2-utils.c: the buffer request / mmap / export / qbuf /  *)
(* dqbuf / streamon helpers of the m2m-test V4L2 utility layer.            *)
(*                                                                         *)
(* Every helper issues ioctl()/mmap() calls to the driver and, when one of *)
(* them fails, calls error(EXIT_FAILURE, ...), which prints the message    *)
(* and then terminates the process.  The driver's replies (return code,    *)
(* granted count, buffer length, dequeued index) are inputs drawn from     *)
(* bounded sets: the code imposes no relation between them.                *)
(***************************************************************************)
EXTENDS Integers, Sequences, FiniteSets, TLC

\* ---- bounds ------------------------------------------------------------
MaxNum == 3        \* largest buffer count the caller asks for
MaxLen == 2        \* largest buffer length the driver reports
MaxIoctls == 8     \* cap on the number of driver requests of one execution

\* ---- values -------------------------------------------------------------
MAP_FAILED == -1   \* value mmap() returns on failure
NoCount == -1      \* "v4l2_buffers_request has returned nothing"
NoIndex == -1      \* "the call carries no buffer index"

Nums     == 0 .. MaxNum          \* counts the caller may request
Grants   == 0 .. (MaxNum + 1)    \* counts the driver may write to reqbuf.count
Lengths  == 0 .. MaxLen          \* lengths the driver may write to buf.length
Rcs      == {0, -1}              \* return codes of ioctl()
Reported == 0 .. MaxNum          \* indices the driver may write on DQBUF
Fds      == {3, 4}               \* descriptors the driver may return on EXPBUF

VARIABLES
    pc,       \* position of the program: start, requested, mmap, export,
              \* ring, error (inside error(), message printed), exited
    num,      \* count passed to v4l2_buffers_request
    reqrc,    \* return code of VIDIOC_REQBUFS (1 = not issued yet)
    grant,    \* reqbuf.count as written by the driver
    count,    \* value returned by v4l2_buffers_request, NoCount if none
    kind,     \* memory exposure chosen: none, mapped, exported
    i,        \* loop variable of v4l2_buffers_mmap / v4l2_buffers_export
    bufs,     \* bufs[] of v4l2_buffers_mmap: index -> mapped length or MAP_FAILED
    fds,      \* bufs[] of v4l2_buffers_export: index -> descriptor
    qlog,     \* indices passed to VIDIOC_QUERYBUF / VIDIOC_EXPBUF, in order
    mlog,     \* indices passed to mmap(), in order
    state,    \* per index: Free, QueuedToDriver, DequeuedByApp
    stream,   \* Stopped, Running
    err,      \* class of the error() call, None if none
    last,     \* the last ring/stream call made and its outcome
    ioctls    \* number of requests issued to the driver

vars == <<pc, num, reqrc, grant, count, kind, i, bufs, fds, qlog, mlog,
          state, stream, err, last, ioctls>>

Empty == [k \in {} |-> 0]

NoCall == [op |-> "none", idx |-> NoIndex, pre |-> "none", rc |-> 0, nq |-> 0]

Init ==
    /\ pc = "start"
    /\ num = 0
    /\ reqrc = 1
    /\ grant = 0
    /\ count = NoCount
    /\ kind = "none"
    /\ i = 0
    /\ bufs = Empty
    /\ fds = Empty
    /\ qlog = <<>>
    /\ mlog = <<>>
    /\ state = Empty
    /\ stream = "Stopped"
    /\ err = "None"
    /\ last = NoCall
    /\ ioctls = 0

\* error(EXIT_FAILURE, errno, ...): the message is printed, the process is
\* about to leave through exit().
error(class) ==
    /\ pc' = "error"
    /\ err' = class

\* request_result without the test of reqbuf.count against num: a partial
\* grant is accepted.
request_result_partial(n, rc, reqcount) ==
    IF rc # 0 THEN "RequestFailed"
    ELSE IF reqcount = 0 THEN "UnsupportedCapability"
    ELSE "None"

\* request_result with the two tests of reqbuf.count in the other order.
request_result_swapped(n, rc, reqcount) ==
    IF rc # 0 THEN "RequestFailed"
    ELSE IF reqcount # n THEN "CountMismatch"
    ELSE IF reqcount = 0 THEN "UnsupportedCapability"
    ELSE "None"

\* The decision of v4l2_buffers_request after the VIDIOC_REQBUFS ioctl:
\* the error class raised, or "None" when reqbuf.count is returned.
request_result(n, rc, reqcount) ==
    IF rc # 0 THEN "RequestFailed"
    ELSE IF reqcount = 0 THEN "UnsupportedCapability"
    ELSE IF reqcount # n THEN "CountMismatch"
    ELSE "None"

v4l2_buffers_request(n, rc, reqcount) ==
    /\ pc = "start"
    /\ num' = n
    /\ reqrc' = rc
    /\ grant' = reqcount
    /\ ioctls' = ioctls + 1
    /\ IF request_result(n, rc, reqcount) # "None"
         THEN /\ error(request_result(n, rc, reqcount))
              /\ UNCHANGED <<count, state>>
         ELSE /\ pc' = "requested"
              /\ count' = reqcount
              /\ state' = [k \in 0 .. (reqcount - 1) |-> "Free"]
              /\ UNCHANGED err
    /\ UNCHANGED <<kind, i, bufs, fds, qlog, mlog, stream, last>>

\* v4l2_buffers_mmap_enter with the loop starting at 1.
v4l2_buffers_mmap_enter_from1 ==
    /\ pc = "requested"
    /\ pc' = "mmap"
    /\ kind' = "mapped"
    /\ i' = 1
    /\ UNCHANGED <<num, reqrc, grant, count, bufs, fds, qlog, mlog, state,
                   stream, err, last, ioctls>>

\* VIDIOC_REQBUFS succeeded with the count asked for: the caller goes on to
\* expose the buffers with v4l2_buffers_mmap, passing the returned count.
v4l2_buffers_mmap_enter ==
    /\ pc = "requested"
    /\ pc' = "mmap"
    /\ kind' = "mapped"
    /\ i' = 0
    /\ UNCHANGED <<num, reqrc, grant, count, bufs, fds, qlog, mlog, state,
                   stream, err, last, ioctls>>

\* mmap(NULL, length, prot, MAP_SHARED, fd, offset): the region (named by its
\* length) or MAP_FAILED.  mmap(2) fails with EINVAL when length is 0.
mmap(length, ok) ==
    IF length = 0 \/ ~ok THEN MAP_FAILED ELSE length

\* v4l2_buffers_mmap_iter with error(0, ...) for a failed mmap(): the
\* message is printed and the loop goes on.
v4l2_buffers_mmap_iter_noexit(qrc, length, ok) ==
    /\ pc = "mmap"
    /\ i < count
    /\ ioctls' = ioctls + 1
    /\ qlog' = Append(qlog, i)
    /\ IF qrc # 0
         THEN /\ error("QueryFailed")
              /\ UNCHANGED <<i, bufs, mlog>>
         ELSE /\ bufs' = (i :> mmap(length, ok)) @@ bufs
              /\ mlog' = Append(mlog, i)
              /\ i' = i + 1
              /\ err' = IF mmap(length, ok) = MAP_FAILED THEN "MapFailed"
                        ELSE err
              /\ UNCHANGED pc
    /\ UNCHANGED <<num, reqrc, grant, count, kind, fds, state, stream, last>>

\* One iteration of the loop of v4l2_buffers_mmap: VIDIOC_QUERYBUF for index
\* i, then mmap() of the length the driver reported, stored in bufs[i].
v4l2_buffers_mmap_iter(qrc, length, ok) ==
    /\ pc = "mmap"
    /\ i < count
    /\ ioctls' = ioctls + 1
    /\ qlog' = Append(qlog, i)
    /\ IF qrc # 0
         THEN /\ error("QueryFailed")
              /\ UNCHANGED <<i, bufs, mlog>>
         ELSE /\ bufs' = (i :> mmap(length, ok)) @@ bufs
              /\ mlog' = Append(mlog, i)
              /\ IF mmap(length, ok) = MAP_FAILED
                   THEN /\ error("MapFailed")
                        /\ UNCHANGED i
                   ELSE /\ i' = i + 1
                        /\ UNCHANGED <<pc, err>>
    /\ UNCHANGED <<num, reqrc, grant, count, kind, fds, state, stream, last>>

\* i < num is false: v4l2_buffers_mmap returns.
v4l2_buffers_mmap_return ==
    /\ pc = "mmap"
    /\ ~(i < count)
    /\ pc' = "ring"
    /\ UNCHANGED <<num, reqrc, grant, count, kind, i, bufs, fds, qlog, mlog,
                   state, stream, err, last, ioctls>>

v4l2_buffers_export_enter ==
    /\ pc = "requested"
    /\ pc' = "export"
    /\ kind' = "exported"
    /\ i' = 0
    /\ UNCHANGED <<num, reqrc, grant, count, bufs, fds, qlog, mlog, state,
                   stream, err, last, ioctls>>

\* One iteration of the loop of v4l2_buffers_export: VIDIOC_EXPBUF for index
\* i; the descriptor the driver returns is stored in bufs[i].
v4l2_buffers_export_iter(rc, fd) ==
    /\ pc = "export"
    /\ i < count
    /\ ioctls' = ioctls + 1
    /\ qlog' = Append(qlog, i)
    /\ IF rc # 0
         THEN /\ error("ExportFailed")
              /\ UNCHANGED <<i, fds>>
         ELSE /\ fds' = (i :> fd) @@ fds
              /\ i' = i + 1
              /\ UNCHANGED <<pc, err>>
    /\ UNCHANGED <<num, reqrc, grant, count, kind, bufs, mlog, state, stream,
                   last>>

v4l2_buffers_export_return ==
    /\ pc = "export"
    /\ ~(i < count)
    /\ pc' = "ring"
    /\ UNCHANGED <<num, reqrc, grant, count, kind, i, bufs, fds, qlog, mlog,
                   state, stream, err, last, ioctls>>

\* Number of indices the driver holds.
NumQueued == Cardinality({k \in DOMAIN state : state[k] = "QueuedToDriver"})

\* v4l2_qbuf recording the index as queued before looking at rc.
v4l2_qbuf_marks_first(idx, rc) ==
    /\ pc = "ring"
    /\ ioctls < MaxIoctls
    /\ ioctls' = ioctls + 1
    /\ last' = [op |-> "qbuf", idx |-> idx, pre |-> state[idx], rc |-> rc,
                nq |-> NumQueued]
    /\ state' = [state EXCEPT ![idx] = "QueuedToDriver"]
    /\ IF rc # 0
         THEN error("DriverRejected")
         ELSE UNCHANGED <<pc, err>>
    /\ UNCHANGED <<num, reqrc, grant, count, kind, i, bufs, fds, qlog, mlog,
                   stream>>

\* v4l2_qbuf issuing VIDIOC_QBUF a second time when the first one fails.
v4l2_qbuf_retry(idx, rc) ==
    /\ pc = "ring"
    /\ ioctls < MaxIoctls
    /\ ioctls' = IF rc # 0 THEN ioctls + 2 ELSE ioctls + 1
    /\ last' = [op |-> "qbuf", idx |-> idx, pre |-> state[idx], rc |-> rc,
                nq |-> NumQueued]
    /\ IF rc # 0
         THEN /\ error("DriverRejected")
              /\ UNCHANGED state
         ELSE /\ state' = [state EXCEPT ![idx] = "QueuedToDriver"]
              /\ UNCHANGED <<pc, err>>
    /\ UNCHANGED <<num, reqrc, grant, count, kind, i, bufs, fds, qlog, mlog,
                   stream>>

\* v4l2_qbuf: one VIDIOC_QBUF for buf->index; fatal if the driver rejects it.
v4l2_qbuf(idx, rc) ==
    /\ pc = "ring"
    /\ ioctls < MaxIoctls
    /\ ioctls' = ioctls + 1
    /\ last' = [op |-> "qbuf", idx |-> idx, pre |-> state[idx], rc |-> rc,
                nq |-> NumQueued]
    /\ IF rc # 0
         THEN /\ error("DriverRejected")
              /\ UNCHANGED state
         ELSE /\ state' = [state EXCEPT ![idx] = "QueuedToDriver"]
              /\ UNCHANGED <<pc, err>>
    /\ UNCHANGED <<num, reqrc, grant, count, kind, i, bufs, fds, qlog, mlog,
                   stream>>

\* v4l2_dqbuf without the test of rc: a failed VIDIOC_DQBUF returns to the
\* caller like a successful one.
v4l2_dqbuf_unchecked(rc, idx) ==
    /\ pc = "ring"
    /\ ioctls < MaxIoctls
    /\ ioctls' = ioctls + 1
    /\ last' = [op |-> "dqbuf", idx |-> IF rc # 0 THEN NoIndex ELSE idx,
                pre |-> IF rc = 0 /\ idx \in DOMAIN state THEN state[idx]
                        ELSE "none",
                rc |-> rc, nq |-> NumQueued]
    /\ state' = IF rc = 0 /\ idx \in DOMAIN state
                  THEN [state EXCEPT ![idx] = "DequeuedByApp"]
                  ELSE state
    /\ UNCHANGED <<pc, err>>
    /\ UNCHANGED <<num, reqrc, grant, count, kind, i, bufs, fds, qlog, mlog,
                   stream>>

\* v4l2_dqbuf: one VIDIOC_DQBUF; fatal if it fails, otherwise *buf is what
\* the driver wrote, buf->index included (idx), and the call returns.
v4l2_dqbuf(rc, idx) ==
    /\ pc = "ring"
    /\ ioctls < MaxIoctls
    /\ ioctls' = ioctls + 1
    /\ IF rc # 0
         THEN /\ error("DequeueFailed")
              /\ last' = [op |-> "dqbuf", idx |-> NoIndex, pre |-> "none",
                          rc |-> rc, nq |-> NumQueued]
              /\ UNCHANGED state
         ELSE /\ last' = [op |-> "dqbuf", idx |-> idx,
                          pre |-> IF idx \in DOMAIN state THEN state[idx]
                                  ELSE "none",
                          rc |-> rc, nq |-> NumQueued]
              /\ state' = IF idx \in DOMAIN state
                            THEN [state EXCEPT ![idx] = "DequeuedByApp"]
                            ELSE state
              /\ UNCHANGED <<pc, err>>
    /\ UNCHANGED <<num, reqrc, grant, count, kind, i, bufs, fds, qlog, mlog,
                   stream>>

\* v4l2_streamon taking the stream as started before looking at rc.
v4l2_streamon_marks_first(rc) ==
    /\ pc = "ring"
    /\ ioctls < MaxIoctls
    /\ ioctls' = ioctls + 1
    /\ last' = [op |-> "streamon", idx |-> NoIndex, pre |-> stream, rc |-> rc,
                nq |-> NumQueued]
    /\ stream' = "Running"
    /\ IF rc # 0
         THEN error("StreamStartFailed")
         ELSE UNCHANGED <<pc, err>>
    /\ UNCHANGED <<num, reqrc, grant, count, kind, i, bufs, fds, qlog, mlog,
                   state>>

\* v4l2_streamon: one VIDIOC_STREAMON; fatal if the driver rejects it.
v4l2_streamon(rc) ==
    /\ pc = "ring"
    /\ ioctls < MaxIoctls
    /\ ioctls' = ioctls + 1
    /\ last' = [op |-> "streamon", idx |-> NoIndex, pre |-> stream, rc |-> rc,
                nq |-> NumQueued]
    /\ IF rc # 0
         THEN /\ error("StreamStartFailed")
              /\ UNCHANGED stream
         ELSE /\ stream' = "Running"
              /\ UNCHANGED <<pc, err>>
    /\ UNCHANGED <<num, reqrc, grant, count, kind, i, bufs, fds, qlog, mlog,
                   state>>

\* exit(): the process ends; the kernel unmaps its regions and closes its
\* descriptors.
exit ==
    /\ pc = "error"
    /\ pc' = "exited"
    /\ bufs' = Empty
    /\ fds' = Empty
    /\ UNCHANGED <<num, reqrc, grant, count, kind, i, qlog, mlog, state,
                   stream, err, last, ioctls>>

Next ==
    \/ \E n \in Nums, rc \in Rcs, g \in Grants : v4l2_buffers_request(n, rc, g)
    \/ v4l2_buffers_mmap_enter
    \/ \E qrc \in Rcs, len \in Lengths, ok \in BOOLEAN :
           v4l2_buffers_mmap_iter(qrc, len, ok)
    \/ v4l2_buffers_mmap_return
    \/ v4l2_buffers_export_enter
    \/ \E rc \in Rcs, fd \in Fds : v4l2_buffers_export_iter(rc, fd)
    \/ v4l2_buffers_export_return
    \/ \E idx \in DOMAIN state, rc \in Rcs : v4l2_qbuf(idx, rc)
    \/ \E rc \in Rcs, idx \in Reported : v4l2_dqbuf(rc, idx)
    \/ \E rc \in Rcs : v4l2_streamon(rc)
    \/ exit

Spec == Init /\ [][Next]_vars

\* ---- helpers of the properties ----------------------------------------

\* Indices whose bufs[] entry is a live mapping.
Live == {k \in DOMAIN bufs : bufs[k] # MAP_FAILED}

\* The sequence 0, 1, ..., n-1.
Ascending(n) == [k \in 1 .. n |-> k - 1]

Dead == pc \in {"error", "exited"}

TypeOK ==
    /\ pc \in {"start", "requested", "mmap", "export", "ring", "error",
               "exited"}
    /\ num \in Nums
    /\ reqrc \in Rcs \cup {1}
    /\ grant \in Grants
    /\ count \in {NoCount} \cup (1 .. MaxNum)
    /\ kind \in {"none", "mapped", "exported"}
    /\ i \in 0 .. MaxNum
    /\ DOMAIN bufs \subseteq 0 .. (MaxNum - 1)
    /\ \A k \in DOMAIN bufs : bufs[k] \in {MAP_FAILED} \cup (1 .. MaxLen)
    /\ DOMAIN fds \subseteq 0 .. (MaxNum - 1)
    /\ \A k \in DOMAIN state :
           state[k] \in {"Free", "QueuedToDriver", "DequeuedByApp"}
    /\ stream \in {"Stopped", "Running"}
    /\ ioctls \in 0 .. MaxIoctls

\* ---- C1 -----------------------------------------------------------------

\* C1 as stated: for every requested count N >= 1 and every grant G # N the
\* request fails with CountMismatch, returns no count and leaves no mapped
\* or exported resource.
C1_AsStated ==
    (reqrc = 0 /\ num >= 1 /\ grant # num) =>
        /\ err = "CountMismatch"
        /\ count = NoCount
        /\ bufs = Empty
        /\ fds = Empty

\* C1, amended: for every requested count N >= 1 and every grant G # N the
\* request fails, with CountMismatch when G # 0 and with
\* UnsupportedCapability when G = 0; it returns no count and no mapping or
\* exported descriptor exists; a count is returned only when G = N, and it
\* is N.
C1_RequestExactGrant ==
    /\ (reqrc = 0 /\ num >= 1 /\ grant # num) =>
           /\ err = (IF grant = 0 THEN "UnsupportedCapability"
                     ELSE "CountMismatch")
           /\ Dead
           /\ count = NoCount
           /\ bufs = Empty
           /\ fds = Empty
    /\ (count # NoCount) => (reqrc = 0 /\ grant = num /\ count = num)

C1_Witness ==
    /\ reqrc = 0 /\ num >= 1 /\ grant \notin {0, num}
    /\ pc = "exited" /\ err = "CountMismatch"

\* ---- C2 -----------------------------------------------------------------

\* C2: when the driver grants zero buffers, whatever count was asked for,
\* the request fails with UnsupportedCapability (never CountMismatch), and
\* no query, mapping or export is ever made afterwards: the REQBUFS request
\* stays the only request issued.
C2_ZeroGrant ==
    (reqrc = 0 /\ grant = 0) =>
        /\ err = "UnsupportedCapability"
        /\ Dead
        /\ count = NoCount
        /\ kind = "none"
        /\ qlog = <<>> /\ mlog = <<>>
        /\ bufs = Empty /\ fds = Empty
        /\ ioctls = 1

C2_Witness ==
    reqrc = 0 /\ grant = 0 /\ num >= 1 /\ pc = "exited"

\* ---- C3 -----------------------------------------------------------------

\* C3 as stated: once the query or mapping of some index has failed in
\* v4l2_buffers_mmap, no mapping made by that call is live.
C3_AsStated ==
    (err \in {"QueryFailed", "MapFailed"}) => Live = {}

\* C3, amended: when the query or mapping of index k fails, the call ends
\* in error() and the process terminates; the call itself unmaps nothing,
\* the k mappings of indices 0..k-1 are all still live when the error is
\* reported, and none is left once the process has exited.
C3_MapFailureTerminates ==
    (err \in {"QueryFailed", "MapFailed"}) =>
        /\ Dead
        /\ kind = "mapped"
        /\ pc = "error" => Live = 0 .. (i - 1)
        /\ pc = "exited" => bufs = Empty

C3_Witness ==
    /\ pc = "error" /\ err = "MapFailed"
    /\ i >= 1 /\ Live = 0 .. (i - 1)

\* ---- C4 -----------------------------------------------------------------

\* C4: while v4l2_buffers_mmap runs without a failure the indices queried
\* and mapped so far are 0, 1, ..., i-1 in that order, once each; when it
\* has returned after a grant of exactly N >= 1, the table has exactly the
\* N entries 0..N-1, each a live mapping of nonzero length.
C4_PoolOfN ==
    /\ (pc = "mmap") =>
           /\ qlog = Ascending(i) /\ mlog = Ascending(i)
           /\ DOMAIN bufs = 0 .. (i - 1) /\ Live = DOMAIN bufs
    /\ (pc = "ring" /\ kind = "mapped") =>
           /\ num >= 1 /\ grant = num /\ count = num
           /\ qlog = Ascending(num) /\ mlog = Ascending(num)
           /\ DOMAIN bufs = 0 .. (num - 1)
           /\ \A k \in DOMAIN bufs : bufs[k] # MAP_FAILED /\ bufs[k] > 0

C4_Witness ==
    pc = "ring" /\ kind = "mapped" /\ num = MaxNum /\ Len(mlog) = MaxNum

\* ---- C5 -----------------------------------------------------------------

\* C5 as stated: a v4l2_qbuf call on an index that is already
\* QueuedToDriver fails with InvalidState.
C5_AsStated ==
    (last.op = "qbuf" /\ last.pre = "QueuedToDriver") =>
        (Dead /\ err = "InvalidState")

\* C5, amended: v4l2_qbuf makes no check of the index's state; from every
\* state, QueuedToDriver included, it issues the QBUF request; if the driver
\* rejects it the call fails with DriverRejected (never InvalidState) and
\* the state of every index is unchanged, and if the driver accepts it the
\* index is QueuedToDriver and no other index changes.
C5_QueueUnchecked ==
    [][(pc = "ring" /\ ioctls' # ioctls /\ last'.op = "qbuf") =>
          /\ last'.pre = state[last'.idx]
          /\ (last'.rc # 0) =>
                 (state' = state /\ pc' = "error" /\ err' = "DriverRejected")
          /\ (last'.rc = 0) =>
                 /\ state' = [state EXCEPT ![last'.idx] = "QueuedToDriver"]
                 /\ pc' = "ring" /\ err' = "None"]_vars

C5_Witness ==
    /\ last.op = "qbuf" /\ last.pre = "QueuedToDriver" /\ last.rc # 0
    /\ pc = "error" /\ err = "DriverRejected"
    /\ state[last.idx] = "QueuedToDriver"

\* ---- C6 -----------------------------------------------------------------

\* C6 as stated: a dequeue for which the driver reports an index outside
\* [0, N) ends in a fatal error, and an index returned by a successful
\* dequeue lies in [0, N) and was QueuedToDriver just before.
C6_AsStated ==
    (last.op = "dqbuf" /\ last.rc = 0) =>
        /\ (last.idx \notin DOMAIN state) => Dead
        /\ (~Dead) => (last.idx \in DOMAIN state
                          /\ last.pre = "QueuedToDriver")

\* C6, amended: v4l2_dqbuf checks nothing but the request's return code; it
\* ends in a fatal error (DequeueFailed) exactly when the DQBUF request
\* fails, and whenever the request succeeds the index the driver reported
\* is handed to the caller as it is, inside [0, N) or not.
C6_DequeueUnchecked ==
    (last.op = "dqbuf") =>
        /\ (last.rc # 0) <=> Dead
        /\ Dead => err = "DequeueFailed"
        /\ (last.rc = 0) =>
               /\ pc = "ring" /\ err = "None"
               /\ last.idx \in Reported
               /\ (last.idx \in DOMAIN state) =>
                      state[last.idx] = "DequeuedByApp"

C6_Witness ==
    /\ last.op = "dqbuf" /\ last.rc = 0
    /\ last.idx \notin DOMAIN state
    /\ pc = "ring"

\* ---- C7 -----------------------------------------------------------------

\* C7 as stated: a v4l2_streamon call made while fewer than all N buffers
\* are QueuedToDriver fails with StreamStartFailed and leaves the stream
\* Stopped.
C7_AsStated ==
    (last.op = "streamon" /\ last.nq < count) =>
        (Dead /\ err = "StreamStartFailed" /\ stream = "Stopped")

\* C7, amended: v4l2_streamon does not look at the queued buffers; it fails
\* with StreamStartFailed exactly when the driver rejects the stream-on
\* request, and the stream state is then unchanged; the stream becomes
\* Running only by a stream-on request the driver accepted, however many
\* buffers were queued.
C7_StreamOnUnchecked ==
    [][/\ (stream' # stream) =>
              /\ pc = "ring" /\ last'.op = "streamon" /\ last'.rc = 0
              /\ stream' = "Running"
       /\ (pc = "ring" /\ ioctls' # ioctls /\ last'.op = "streamon") =>
              /\ (last'.rc # 0) =>
                     /\ stream' = stream
                     /\ pc' = "error" /\ err' = "StreamStartFailed"
              /\ (last'.rc = 0) =>
                     (stream' = "Running" /\ pc' = "ring" /\ err' = "None")
      ]_vars

C7_Witness ==
    /\ last.op = "streamon" /\ last.nq < count /\ last.rc # 0
    /\ pc = "error" /\ err = "StreamStartFailed" /\ stream = "Stopped"

\* ---- C10 ----------------------------------------------------------------

\* C10: every call of v4l2_qbuf, v4l2_dqbuf and v4l2_streamon issues exactly
\* one request to the driver; if the request fails the call ends in the
\* fatal error of its class, and from then on no request is issued and
\* nothing changes but the process leaving.
C10_NoRetry ==
    [][/\ (pc = "ring") =>
              /\ ioctls' = ioctls + 1
              /\ last'.op \in {"qbuf", "dqbuf", "streamon"}
              /\ (last'.rc # 0) =>
                     /\ pc' = "error"
                     /\ err' = (CASE last'.op = "qbuf" -> "DriverRejected"
                                  [] last'.op = "dqbuf" -> "DequeueFailed"
                                  [] OTHER -> "StreamStartFailed")
              /\ (last'.rc = 0) => (pc' = "ring" /\ err' = "None")
       /\ Dead =>
              /\ ioctls' = ioctls
              /\ pc = "error" /\ pc' = "exited"
              /\ <<err, last, state, stream, qlog, mlog>>'
                     = <<err, last, state, stream, qlog, mlog>>
      ]_vars

C10_Witness ==
    /\ pc = "exited"
    /\ last.rc # 0
    /\ err \in {"DriverRejected", "DequeueFailed", "StreamStartFailed"}
    /\ ioctls < MaxIoctls
====
